---- MODULE Spec2Model ----
(***************************************************************************)
(* Model of src/app.py: the TSE volume screener.                           *)
(*                                                                         *)
(* Text is a sequence of one-character strings.  Prices and volumes are    *)
(* whole numbers; what the script computes from them in floating point     *)
(* (means, ratios, the day-change percentage) is computed here as binary64 *)
(* values, each operation rounded as the hardware rounds it.               *)
(*                                                                         *)
(* One browser session is modelled.  Streamlit executes the script from    *)
(* its first line whenever a widget is changed or the button is pressed,   *)
(* and stops an execution under way at its next st.* call; the actions     *)
(* are the stretches of the script between those calls and around          *)
(* yf.download, where fetch_ohlcv waits for the network.  The cache of     *)
(* fetch_ohlcv outlives every execution.                                   *)
(***************************************************************************)
EXTENDS Integers, Sequences, FiniteSets, TLC

VARIABLES
    codes_text,   \* the text_area's value                     (app.py:17)
    cfg,          \* the slider / number_input values       (app.py:24-42)
    codes,        \* parse_codes(codes_text)                  (app.py:105)
    pc,           \* "input" | "idle" | "loop" | "download" | "fetched" | "stopped"
    outcome,      \* "none" | "input_error" | "no_matches" | "results" | "exception"
    i,            \* symbols processed by the for loop        (app.py:122)
    rows,         \* the collected rows                       (app.py:116)
    out,          \* the displayed / exported table           (app.py:195)
    cache,        \* st.cache_data's store for fetch_ohlcv     (app.py:64)
    requests,     \* per <<ticker, period_days>>: what fetch_ohlcv made of each answer of yf.download
    served,       \* this execution's last fetch_ohlcv call: arguments, hit or miss, result
    loc,          \* the loop body's locals after this execution's last iteration
    verdicts,     \* per processed symbol of this run: which `continue` it took, or "row"
    runs          \* button presses so far

vars == <<codes_text, cfg, codes, pc, outcome, i, rows, out, cache, requests,
          served, loc, verdicts, runs>>

-----------------------------------------------------------------------------
(* Bounds of the model *)

\* button presses explored
MaxRuns == 3
\* symbols of the modelled market (the longest ticker list a run is given)
NumSymbols == 16
\* bars the provider returns for the long / the short lookback
LongLen == 31
ShortLen == 26
\* pieces (tokens and separators) concatenated into a parser input
MaxPieces == 5

-----------------------------------------------------------------------------
(* Characters and strings *)

\* The characters used, in code point order.  A character is a string; the
\* control characters that have no escape here go by their Python escapes.
CharOrder ==
    <<"\t", "\n", "\\x0b", "\f", "\r", "\\x1c", "\\x1d", "\\x1e", " ", ",", ".",
      "0", "1", "2", "3", "4", "5", "6", "7", "8", "9", "A", "T",
      "\\x85", "\\u2028", "\\u2029">>

Ord(c) == CHOOSE k \in 1..Len(CharOrder) : CharOrder[k] = c

Digits == {"0", "1", "2", "3", "4", "5", "6", "7", "8", "9"}

\* The line boundaries of str.splitlines(); "\r\n" is one boundary
LineBoundaries ==
    {"\n", "\r", "\\x0b", "\f", "\\x1c", "\\x1d", "\\x1e", "\\x85", "\\u2028", "\\u2029"}

\* What str.strip() removes, among the characters used
Whitespace == LineBoundaries \cup {" ", "\t"}

DigitChar(n) == CharOrder[n + 12]

\* The four-digit decimal numeral of n, as text
Numeral(n) ==
    <<DigitChar(n \div 1000), DigitChar((n \div 100) % 10),
      DigitChar((n \div 10) % 10), DigitChar(n % 10)>>

\* Python's str comparison: lexicographic by code point, a proper prefix first
RECURSIVE StrLess(_, _)
StrLess(a, b) ==
    IF a = <<>> THEN b # <<>>
    ELSE IF b = <<>> THEN FALSE
    ELSE IF a[1] # b[1] THEN Ord(a[1]) < Ord(b[1])
    ELSE StrLess(Tail(a), Tail(b))

\* str.replace(old, new) for a one-character `old`
RECURSIVE ReplaceChar(_, _, _)
ReplaceChar(s, old, new) ==
    IF s = <<>> THEN <<>>
    ELSE (IF s[1] = old THEN new ELSE <<s[1]>>) \o ReplaceChar(Tail(s), old, new)

\* str.splitlines(): the lines without their terminators; no final empty line
RECURSIVE SplitLines(_)
SplitLines(s) ==
    IF s = <<>> THEN <<>>
    ELSE LET brk == {k \in 1..Len(s) : s[k] \in LineBoundaries}
         IN  IF brk = {} THEN <<s>>
             ELSE LET k == CHOOSE x \in brk : \A y \in brk : x <= y
                      rest == IF s[k] = "\r" /\ k < Len(s) /\ s[k + 1] = "\n"
                              THEN k + 2 ELSE k + 1
                  IN  <<SubSeq(s, 1, k - 1)>> \o SplitLines(SubSeq(s, rest, Len(s)))

\* str.strip()
Strip(s) ==
    LET keep == {k \in 1..Len(s) : s[k] \notin Whitespace}
    IN  IF keep = {} THEN <<>>
        ELSE LET lo == CHOOSE x \in keep : \A y \in keep : x <= y
                 hi == CHOOSE x \in keep : \A y \in keep : x >= y
             IN  SubSeq(s, lo, hi)

\* str.isdigit(): non-empty and every character a digit
IsDigit(s) == s # <<>> /\ \A k \in 1..Len(s) : s[k] \in Digits

\* The fixed exchange suffix
Suffix == <<".", "T">>

\* sorted(set(xs)) for strings
RECURSIVE SortedSet(_)
SortedSet(S) ==
    IF S = {} THEN <<>>
    ELSE LET m == CHOOSE x \in S : \A y \in S \ {x} : StrLess(x, y)
         IN  <<m>> \o SortedSet(S \ {m})

\* mutant: the line is not stripped
NormalizeLine_NoStrip(r) ==
    IF r = <<>> THEN <<>>
    ELSE IF IsDigit(r) /\ Len(r) = 4 THEN <<r \o Suffix>>
    ELSE <<r>>

\* the body of parse_codes' for loop, for one line r: what is appended to codes
NormalizeLine(r) ==
    LET s == Strip(r)
    IN  IF s = <<>> THEN <<>>
        ELSE IF IsDigit(s) /\ Len(s) = 4 THEN <<s \o Suffix>>
        ELSE <<s>>

RECURSIVE CollectCodes(_)
CollectCodes(raw) ==
    IF raw = <<>> THEN <<>>
    ELSE NormalizeLine(raw[1]) \o CollectCodes(Tail(raw))

Range(s) == {s[k] : k \in 1..Len(s)}

parse_codes(text) ==
    LET raw == SplitLines(ReplaceChar(text, ",", <<"\n">>))
    IN  SortedSet(Range(CollectCodes(raw)))


\* t.replace(".T", ""): every non-overlapping occurrence, left to right
RECURSIVE RemoveSuffix(_)
RemoveSuffix(t) ==
    IF t = <<>> THEN <<>>
    ELSE IF Len(t) >= 2 /\ SubSeq(t, 1, 2) = Suffix THEN RemoveSuffix(SubSeq(t, 3, Len(t)))
    ELSE <<t[1]>> \o RemoveSuffix(Tail(t))

-----------------------------------------------------------------------------
(* Floating point: IEEE 754 binary64, round to nearest, ties to even *)

\* A finite non-zero float is sign * (hi * 2^27 + lo) * 2^exp, its 53-bit
\* significand split in two: 2^25 <= hi < 2^26 and 0 <= lo < 2^27.
Limb == 2^27

\* float("nan")
NaN == [sign |-> 0, hi |-> 0, lo |-> 0, exp |-> 0]

\* a raised ZeroDivisionError, in place of the quotient
ZeroDivisionError == [sign |-> 0, hi |-> 1, lo |-> 0, exp |-> 0]

Zero == [sign |-> 1, hi |-> 0, lo |-> 0, exp |-> 0]

\* float("inf") for s = 1, float("-inf") for s = -1
Inf(s) == [sign |-> s, hi |-> 0, lo |-> 1, exp |-> 0]

\* pd.isna(x)
IsNa(x) == x = NaN

IsZero(x) == x = Zero

IsInf(x) == x.sign # 0 /\ x.hi = 0 /\ x.lo = 1

Abs(x) == IF x < 0 THEN -x ELSE x

\* The number of binary digits of n, 0 <= n < 2^31
BitLen(n) ==
    IF n >= 2^30 THEN 31 ELSE CHOOSE b \in 0..30 : n < 2^b /\ (b = 0 \/ n >= 2^(b - 1))

\* The float sign * (hi * 2^27 + lo) * 2^exp after an increment of lo: the
\* carry out of lo goes into hi, the carry out of hi into the exponent
Carry(sign, hi, lo, exp) ==
    IF lo < Limb THEN [sign |-> sign, hi |-> hi, lo |-> lo, exp |-> exp]
    ELSE IF hi + 1 = 2^26 THEN [sign |-> sign, hi |-> 2^25, lo |-> 0, exp |-> exp + 1]
    ELSE [sign |-> sign, hi |-> hi + 1, lo |-> 0, exp |-> exp]

\* Round, the dropped digits having been compared with half a unit of lo: to
\* the nearest, and on a tie to the even one
RoundUp(sign, hi, lo, exp, above, tie, sticky) ==
    Carry(sign, hi,
          IF above \/ (tie /\ (sticky \/ lo % 2 = 1)) THEN lo + 1 ELSE lo, exp)

\* Round, the k low binary digits being the ones to drop, 1 <= k <= 5
RoundDigits(sign, hi, lo, sticky, exp, k) ==
    RoundUp(sign, hi \div 2^k, (lo \div 2^k) + (hi % 2^k) * 2^(27 - k), exp + k,
            lo % 2^k > 2^(k - 1), lo % 2^k = 2^(k - 1), sticky)

\* The float nearest to sign * (hi * 2^27 + lo + f) * 2^exp, where the integer
\* hi * 2^27 + lo has more than 53 binary digits and 0 <= f < 1 with f > 0
\* exactly when sticky
Round(sign, hi, lo, sticky, exp) ==
    RoundDigits(sign, hi, lo, sticky, exp, BitLen(hi) - 26)

\* a * 2^s for 2^52 <= a * 2^s < 2^53, the float -s being its exponent
Shifted(sign, a, s) ==
    [sign |-> sign,
     hi |-> IF s >= 27 THEN a * 2^(s - 27) ELSE a \div 2^(27 - s),
     lo |-> IF s >= 27 THEN 0 ELSE (a % 2^(27 - s)) * 2^s,
     exp |-> -s]

\* float(n) for an integer n: exact
ToFloat(n) ==
    IF n = 0 THEN Zero
    ELSE Shifted(IF n < 0 THEN -1 ELSE 1, Abs(n), 53 - BitLen(Abs(n)))

\* (qhi * 2^27 + qlo) * 2^s, as <<hi, lo>>
ShiftLeft(qhi, qlo, s) ==
    IF s >= 27 THEN <<qlo * 2^(s - 27), 0>>
    ELSE <<qhi * 2^s + qlo \div 2^(27 - s), (qlo % 2^(27 - s)) * 2^s>>

\* One digit of the long division: the doubled remainder <<hi2, lo2>> less the
\* divisor when it is not below it, and the quotient with its new digit
DivStep(hi2, lo2, qhi, qlo, dhi, dlo) ==
    IF hi2 > dhi \/ (hi2 = dhi /\ lo2 >= dlo)
    THEN <<hi2 - dhi - (IF lo2 < dlo THEN 1 ELSE 0),
           lo2 - dlo + (IF lo2 < dlo THEN Limb ELSE 0),
           2 * qhi + (2 * qlo + 1) \div Limb, (2 * qlo + 1) % Limb>>
    ELSE <<hi2, lo2, 2 * qhi + (2 * qlo) \div Limb, (2 * qlo) % Limb>>

\* Binary long division: `steps` more quotient digits of r / d, for r < d.
\* acc is <<r hi, r lo, q hi, q lo>>, the remainder and the quotient so far;
\* the result is <<quotient hi, quotient lo, remainder # 0>>
RECURSIVE LongDiv(_, _, _, _)
LongDiv(acc, dhi, dlo, steps) ==
    IF steps = 0 THEN <<acc[3], acc[4], acc[1] # 0 \/ acc[2] # 0>>
    ELSE IF acc[1] = 0 /\ acc[2] = 0 THEN ShiftLeft(acc[3], acc[4], steps) \o <<FALSE>>
    ELSE LongDiv(DivStep(2 * acc[1] + (2 * acc[2]) \div Limb, (2 * acc[2]) % Limb,
                         acc[3], acc[4], dhi, dlo),
                 dhi, dlo, steps - 1)

\* The significand of x is not below that of y
SigGe(x, y) == x.hi > y.hi \/ (x.hi = y.hi /\ x.lo >= y.lo)

\* The quotient q = <<hi, lo, sticky>> of a long division, rounded
Quotient(sign, q, exp) == Round(sign, q[1], q[2], q[3], exp)

\* x / y for finite non-zero x and y: a quotient of 54 binary digits, rounded
DivFinite(x, y) ==
    Quotient(x.sign * y.sign,
             LongDiv(IF SigGe(x, y)
                     THEN <<x.hi - y.hi - (IF x.lo < y.lo THEN 1 ELSE 0),
                            x.lo - y.lo + (IF x.lo < y.lo THEN Limb ELSE 0), 0, 1>>
                     ELSE <<x.hi, x.lo, 0, 0>>,
                     y.hi, y.lo, IF SigGe(x, y) THEN 53 ELSE 54),
             x.exp - y.exp - (IF SigGe(x, y) THEN 53 ELSE 54))

\* x / y where an operand is a numpy.float64: a zero divisor gives inf or nan
Float64Div(x, y) ==
    IF IsNa(x) \/ IsNa(y) THEN NaN
    ELSE IF IsZero(y) THEN (IF IsZero(x) THEN NaN ELSE Inf(x.sign))
    ELSE IF IsInf(x) THEN (IF IsInf(y) THEN NaN ELSE Inf(x.sign * y.sign))
    ELSE IF IsInf(y) \/ IsZero(x) THEN Zero
    ELSE DivFinite(x, y)

\* x / y on Python floats: a zero divisor raises
FloatDiv(x, y) == IF IsZero(y) THEN ZeroDivisionError ELSE Float64Div(x, y)

\* sign * (25 * hi * 2^27 + a * 2^14 + b) * 2^exp, rounded
Times25(sign, hi, a, b, exp) ==
    Round(sign, 25 * hi + a \div 2^13 + ((a % 2^13) * 2^14 + b) \div Limb,
          ((a % 2^13) * 2^14 + b) % Limb, FALSE, exp)

\* x * 100.0: the significand times 25, the exponent plus 2, rounded
FloatMul100(x) ==
    IF IsNa(x) \/ IsZero(x) \/ IsInf(x) \/ x = ZeroDivisionError THEN x
    ELSE Times25(x.sign, x.hi, 25 * (x.lo \div 2^14), 25 * (x.lo % 2^14), x.exp + 2)

\* |x| < |y| for x and y not NaN
MagLt(x, y) ==
    IF IsZero(y) \/ IsInf(x) THEN FALSE
    ELSE IF IsZero(x) \/ IsInf(y) THEN TRUE
    ELSE \/ x.exp < y.exp
         \/ x.exp = y.exp /\ (x.hi < y.hi \/ (x.hi = y.hi /\ x.lo < y.lo))

\* x < y: False when either is NaN
FloatLt(x, y) ==
    /\ ~IsNa(x) /\ ~IsNa(y)
    /\ IF x.sign # y.sign THEN x.sign < y.sign
       ELSE IF x.sign = 1 THEN MagLt(x, y) ELSE MagLt(y, x)

\* x <= y: False when either is NaN
FloatLe(x, y) == ~IsNa(x) /\ ~IsNa(y) /\ (x = y \/ FloatLt(x, y))

\* int(x) for |x| < 2^31: truncation toward zero
ToInt(x) ==
    IF IsZero(x) \/ -x.exp >= 53 THEN 0
    ELSE x.sign * (IF -x.exp >= 27 THEN x.hi \div 2^(-x.exp - 27)
                   ELSE x.hi * 2^(27 + x.exp) + x.lo \div 2^(-x.exp))

\* The float a decimal literal of value n / d denotes, d > 0
FloatLit(n, d) == Float64Div(ToFloat(n), ToFloat(d))

Max(a, b) == IF a >= b THEN a ELSE b

Min(a, b) == IF a <= b THEN a ELSE b

-----------------------------------------------------------------------------
(* Series and frames *)

RECURSIVE SumSeq(_)
SumSeq(s) == IF s = <<>> THEN 0 ELSE s[1] + SumSeq(Tail(s))

\* Series.tail(n), Series.head(n), n >= 0
SeriesTail(s, n) == SubSeq(s, Max(1, Len(s) - n + 1), Len(s))

SeriesHead(s, n) == SubSeq(s, 1, Min(n, Len(s)))

\* Series.mean() of a float series of whole numbers: the sum, which is exact,
\* divided by the count; NaN for an empty series
Mean(s) == IF s = <<>> THEN NaN ELSE Float64Div(ToFloat(SumSeq(s)), ToFloat(Len(s)))

\* pd.DataFrame()
EmptyFrame == [columns |-> <<>>, bars |-> <<>>]

keep_cols == <<"Date", "Open", "Close", "Volume">>

\* df.reset_index(): the index becomes the first column
ResetIndex(raw) == <<raw.index>> \o raw.columns

\* df.rename(columns={df.columns[0]: "Date"}) when there is no "Date" column
RenameFirst(cols) ==
    IF "Date" \in Range(cols) THEN cols ELSE <<"Date">> \o Tail(cols)

\* df[keep_cols].dropna(): rows with a missing value in a kept column are dropped
RECURSIVE DropNa(_)
DropNa(bars) ==
    IF bars = <<>> THEN <<>>
    ELSE LET b == bars[1]
         IN  (IF b.na \cap Range(keep_cols) = {}
              THEN <<[Date |-> b.Date, Open |-> b.Open, Close |-> b.Close,
                      Volume |-> b.Volume]>>
              ELSE <<>>) \o DropNa(Tail(bars))

\* The body of fetch_ohlcv, given what yf.download returned
FetchBody(raw) ==
    IF raw.kind = "none" \/ raw.bars = <<>> THEN EmptyFrame
    ELSE LET cols == RenameFirst(ResetIndex(raw))
         IN  IF \E c \in Range(keep_cols) : c \notin Range(cols) THEN EmptyFrame
             ELSE [columns |-> keep_cols, bars |-> DropNa(raw.bars)]

\* df.empty
DfEmpty(df) == df.columns = <<>> \/ df.bars = <<>>

\* mutant: the lookback is left out of the key
CacheKey_TickerOnly(ticker, period_days) == <<ticker, 0>>

\* The key st.cache_data files a call of fetch_ohlcv under: its arguments
CacheKey(ticker, period_days) == <<ticker, period_days>>

-----------------------------------------------------------------------------
(* The per-ticker evaluation: the body of the for loop *)

\* The closes are whole numbers, so today_close - prev_close is exact
safe_pct_change(today_close, prev_close) ==
    IF prev_close <= 0 THEN NaN
    ELSE FloatMul100(FloatDiv(ToFloat(today_close - prev_close), ToFloat(prev_close)))

MinBars(c) ==
    Max(Max(c.recent_days + c.base_days + 5, c.spike_days + 5), c.base_days + 10)

RecentWindow(vol, c) == SeriesTail(vol, c.recent_days)

BaseWindow(vol, c) == SeriesHead(SeriesTail(vol, c.recent_days + c.base_days), c.base_days)

\* mutant: the last bar is not left out of the spike base
SpikeBaseWindow_WithToday(vol, c) == SeriesHead(SeriesTail(vol, c.spike_days), c.spike_days)

SpikeBaseWindow(vol, c) == SeriesHead(SeriesTail(vol, c.spike_days + 1), c.spike_days)

\* the filter conditions, each the condition of one `continue`
NoData(df, c) == DfEmpty(df) \/ Len(df.bars) < MinBars(c)

\* mutant: the limit taken as a fraction of 1 where the change is in percent
PriceRan_Scale(day_change_pct, c) ==
    FloatLt(ToFloat(c.max_day_change * 100), day_change_pct)

PriceRan(day_change_pct, c) == FloatLt(ToFloat(c.max_day_change), day_change_pct)

AvgUndefined(recent_avg, base_avg) ==
    IsNa(recent_avg) \/ IsNa(base_avg) \/ FloatLe(base_avg, ToFloat(0))

\* mutant: a base average equal to the floor is rejected too
Illiquid_AtFloor(base_avg, c) == FloatLe(base_avg, ToFloat(c.min_base_avg_vol))

Illiquid(base_avg, c) == FloatLt(base_avg, ToFloat(c.min_base_avg_vol))

WeakBuildUp(recent_ratio, c) == FloatLt(recent_ratio, c.min_recent_ratio)

SpikeUndefined(spike_base) == IsNa(spike_base) \/ FloatLe(spike_base, ToFloat(0))

WeakSpike(today_ratio, c) == FloatLt(today_ratio, c.min_spike)

\* mutant: the comparison turned around
QuietPrevDay_Reversed(prev_vol, spike_base) == FloatLt(spike_base, ToFloat(prev_vol))

QuietPrevDay(prev_vol, spike_base) == FloatLt(ToFloat(prev_vol), spike_base)

\* The `continue` an iteration takes, by its place in the loop body: 0 for the
\* first, 9 for none (the row is appended), -1 for a raised exception
Stage(df, c, day_change_pct, recent_avg, base_avg, recent_ratio, spike_base, today_ratio, prev_vol) ==
    IF NoData(df, c) THEN 0
    ELSE IF day_change_pct = ZeroDivisionError THEN -1
    ELSE IF IsNa(day_change_pct) THEN 1
    ELSE IF PriceRan(day_change_pct, c) THEN 2
    ELSE IF AvgUndefined(recent_avg, base_avg) THEN 3
    ELSE IF Illiquid(base_avg, c) THEN 4
    ELSE IF WeakBuildUp(recent_ratio, c) THEN 5
    ELSE IF SpikeUndefined(spike_base) THEN 6
    ELSE IF WeakSpike(today_ratio, c) THEN 7
    ELSE IF QuietPrevDay(prev_vol, spike_base) THEN 8
    ELSE 9

Verdicts ==
    <<"no_data", "nan_change", "price", "avg_undefined", "liquidity",
      "recent_ratio", "spike_undefined", "spike_ratio", "continuity", "row">>

\* The locals an iteration that went as far as `stage` has assigned; the rest
\* stays NaN
Locals(stage, n, day_change_pct, recent_avg, base_avg, recent_ratio, spike_base, today_ratio) ==
    [verdict        |-> IF stage = -1 THEN "raise" ELSE Verdicts[stage + 1],
     len            |-> n,
     day_change_pct |-> IF stage >= 1 THEN day_change_pct ELSE NaN,
     recent_avg     |-> IF stage >= 3 THEN recent_avg ELSE NaN,
     base_avg       |-> IF stage >= 3 THEN base_avg ELSE NaN,
     recent_ratio   |-> IF stage >= 5 THEN recent_ratio ELSE NaN,
     spike_base     |-> IF stage >= 6 THEN spike_base ELSE NaN,
     today_ratio    |-> IF stage >= 7 THEN today_ratio ELSE NaN]

\* The loop body from the two ratios on, given the values they are taken of
Ratios(df, c, n, day_change_pct, recent_avg, base_avg, recent_ratio, spike_base, today_ratio, prev_vol) ==
    Locals(Stage(df, c, day_change_pct, recent_avg, base_avg, recent_ratio,
                 spike_base, today_ratio, prev_vol),
           n, day_change_pct, recent_avg, base_avg, recent_ratio, spike_base,
           today_ratio)

\* The loop body from the averages on, given the day-change and the windows
Averages(df, c, n, day_change_pct, recent_avg, base_avg, spike_base, today_vol, prev_vol) ==
    Ratios(df, c, n, day_change_pct, recent_avg, base_avg,
           Float64Div(recent_avg, base_avg), spike_base,
           Float64Div(ToFloat(today_vol), spike_base), prev_vol)

\* The loop body on the volume series vol of the n bars of df
Series(df, c, n, vol) ==
    Averages(df, c, n, safe_pct_change(df.bars[n].Close, df.bars[n - 1].Close),
             Mean(RecentWindow(vol, c)), Mean(BaseWindow(vol, c)),
             Mean(SpikeBaseWindow(vol, c)), vol[n], vol[n - 1])

\* What one iteration computes for frame df: the `continue` it takes (or "row"
\* or "raise") and the locals assigned on the way there. Each value is worked
\* out only when the loop body gets as far as the statement assigning it.
Evaluate(df, c) ==
    Series(df, c, Len(df.bars), [k \in 1..Len(df.bars) |-> df.bars[k].Volume])

\* The dict appended to rows for ticker t, e being the iteration's locals
MakeRow(t, df, e) ==
    LET n == Len(df.bars)
    IN  [Ticker         |-> t,
         Code           |-> RemoveSuffix(t),
         last_date      |-> df.bars[n].Date,
         close          |-> ToFloat(df.bars[n].Close),
         day_change_pct |-> e.day_change_pct,
         today_vol      |-> df.bars[n].Volume,
         today_ratio    |-> e.today_ratio,
         recent_avg     |-> ToInt(e.recent_avg),
         base_avg       |-> ToInt(e.base_avg),
         recent_ratio   |-> e.recent_ratio]

-----------------------------------------------------------------------------
(* Ranking *)

\* row a sorts strictly before row b: descending today_ratio, then recent_ratio
RanksBefore(a, b) ==
    \/ FloatLt(b.today_ratio, a.today_ratio)
    \/ /\ a.today_ratio = b.today_ratio
       /\ FloatLt(b.recent_ratio, a.recent_ratio)

\* mutant: sorted by the first key alone
RECURSIVE SortValues_FirstKeyOnly(_)
SortValues_FirstKeyOnly(rs) ==
    IF rs = <<>> THEN <<>>
    ELSE LET best == {k \in 1..Len(rs) :
                         \A j \in 1..Len(rs) : ~FloatLt(rs[k].today_ratio, rs[j].today_ratio)}
             k == CHOOSE x \in best : \A y \in best : x <= y
         IN  <<rs[k]>> \o SortValues_FirstKeyOnly(SubSeq(rs, 1, k - 1)
                                                   \o SubSeq(rs, k + 1, Len(rs)))

\* DataFrame.sort_values([...], ascending=False): a stable sort, so rows with
\* equal keys keep their order
RECURSIVE SortValues(_)
SortValues(rs) ==
    IF rs = <<>> THEN <<>>
    ELSE LET best == {k \in 1..Len(rs) : \A j \in 1..Len(rs) : ~RanksBefore(rs[j], rs[k])}
             k == CHOOSE x \in best : \A y \in best : x <= y
         IN  <<rs[k]>> \o SortValues(SubSeq(rs, 1, k - 1) \o SubSeq(rs, k + 1, Len(rs)))

\* DataFrame.head(n)
Head_n(rs, n) == SubSeq(rs, 1, Min(n, Len(rs)))

-----------------------------------------------------------------------------
(* The widgets' values *)

\* The text_area's default value: six codes, one per line
DefaultCodes == <<7203, 6758, 9984, 8035, 4063, 9432>>

\* The numeric code of the k-th symbol of the modelled market
CodeNumber(k) ==
    IF k <= Len(DefaultCodes) THEN DefaultCodes[k] ELSE 9984 + k - Len(DefaultCodes)

RECURSIVE JoinCodes(_, _)
JoinCodes(n, sep) ==
    IF n = 0 THEN <<>>
    ELSE IF n = 1 THEN Numeral(CodeNumber(1))
    ELSE JoinCodes(n - 1, sep) \o sep \o Numeral(CodeNumber(n))

DefaultText == JoinCodes(Len(DefaultCodes), <<"\n">>)

\* The widgets' defaults: min_recent_ratio 1.5, min_spike 3.0
CfgDefault ==
    [lookback_days |-> 160, recent_days |-> 5, base_days |-> 20,
     min_recent_ratio |-> FloatLit(15, 10), spike_days |-> 20,
     min_spike |-> FloatLit(30, 10), max_day_change |-> 5,
     min_base_avg_vol |-> 100000, top_n |-> 50]

\* The defaults with a higher liquidity floor
CfgFloor == [CfgDefault EXCEPT !.min_base_avg_vol = 150000]

\* The defaults with the table at its shortest
CfgShortTable == [CfgDefault EXCEPT !.top_n = 10]

\* Short lookback, other windows and thresholds: min_recent_ratio 2.5,
\* min_spike 5.0
CfgAlt ==
    [lookback_days |-> 60, recent_days |-> 3, base_days |-> 10,
     min_recent_ratio |-> FloatLit(25, 10), spike_days |-> 15,
     min_spike |-> FloatLit(50, 10), max_day_change |-> 7,
     min_base_avg_vol |-> 0, top_n |-> 10]

Configs == {CfgDefault, CfgFloor, CfgShortTable, CfgAlt}

\* Ticker lists the user enters: nothing, separators and blanks only, a few
\* codes with a repetition and an unknown symbol, some more, every symbol
EmptyText == <<>>

BlankText == <<" ", ",", "\n", " ", ",">>

FewCodesText ==
    Numeral(CodeNumber(2)) \o <<",", " ">> \o Numeral(CodeNumber(5)) \o Suffix
        \o <<"\n", "\n">> \o Numeral(CodeNumber(2)) \o <<",", "A", "A">>

\* The default codes and two more, separated by commas
MoreCodesText == JoinCodes(Len(DefaultCodes) + 2, <<",">>)

AllCodesText == JoinCodes(NumSymbols, <<"\n">>)

\* The widget settings the user makes: <<ticker list, sliders>>.  Changes of
\* several widgets in a row, each of which reruns the script without the
\* button, are followed as the one rerun that ends them.
RunInputs ==
    ({EmptyText, BlankText, FewCodesText, DefaultText} \X {CfgDefault})
        \cup {<<DefaultText, CfgFloor>>, <<MoreCodesText, CfgAlt>>,
               <<AllCodesText, CfgShortTable>>}

\* parse_codes of the texts the text_area holds
ParsedOf(texts) == [text \in texts |-> parse_codes(text)]

Parsed == ParsedOf({DefaultText}) @@ ParsedOf({inp[1] : inp \in RunInputs} \ {DefaultText})

-----------------------------------------------------------------------------
(* The market-data provider: what yf.download may return *)

Ticker(k) == Numeral(CodeNumber(k)) \o Suffix

\* 0 for a symbol the provider does not know
SymbolIndex(t) ==
    IF \E k \in 1..NumSymbols : Ticker(k) = t
    THEN CHOOSE k \in 1..NumSymbols : Ticker(k) = t
    ELSE 0

\* Trading days the provider has for a lookback of period_days calendar days
HistoryLen(period_days) == IF period_days >= 160 THEN LongLen ELSE ShortLen

\* A volume profile: today's and the previous day's volume, the three days
\* before (r), the sixteen before those (b2), the four before those (b1) and
\* everything older (pre); the previous and the last close.
Profile(pre, b1, b2, r, prev, today, cprev, ctoday) ==
    [pre |-> pre, b1 |-> b1, b2 |-> b2, r |-> r, prev |-> prev, today |-> today,
     cprev |-> cprev, ctoday |-> ctoday]

VolumeAt(p, back) ==
    IF back = 0 THEN p.today
    ELSE IF back = 1 THEN p.prev
    ELSE IF back <= 4 THEN p.r
    ELSE IF back <= 20 THEN p.b2
    ELSE IF back <= 24 THEN p.b1
    ELSE p.pre

DataColumns == <<"Open", "High", "Low", "Close", "Adj Close", "Volume">>

\* A frame of n daily bars of profile p; holes maps a bar's number to the
\* columns that are missing (NaN) in it
Frame(p, n, index, columns, holes) ==
    [kind |-> "frame", index |-> index, columns |-> columns,
     bars |-> [k \in 1..n |->
                 [Date |-> k,
                  Open |-> p.cprev,
                  Close |-> IF k = n THEN p.ctoday ELSE p.cprev,
                  Volume |-> VolumeAt(p, n - k),
                  na |-> IF k \in DOMAIN holes THEN holes[k] ELSE {}]]]

NoFrame == [kind |-> "none", index |-> "Date", columns |-> <<>>, bars |-> <<>>]

NoHoles == [k \in {} |-> {}]

\* Gradual build-up, then a spike of `mult` times the spike-base average 110,000
Spiking(b1, mult) == Profile(90000, b1, 100000, 100000, 300000, 110000 * mult, 1000, 1010)

\* Under the default windows: base average 100,000 with b1 on its four oldest
\* days, recent average 200,000, volume 600,000 on the last day and 160,000
\* the day before, close 100 -> 103
Scenario(b1) ==
    Profile(100000, b1, (2000000 - 4 * b1) \div 16, 80000, 160000, 600000, 100, 103)

\* Under the default windows: base average 100001.6 and recent average
\* 150002.4, whose quotient is 3/2 and in floating point 1.4999999999999998
OnTheLine == Profile(100000, 100008, 100000, 50000, 100000, 500012, 1000, 1010)

\* Under the default windows: two series whose today ratio is 90/19, which
\* floating point gives as 4.736842105263158 for the first and as
\* 4.7368421052631575 for the second
TiedHigh == Profile(100000, 100000, 100000, 100000, 100054, 473697, 1000, 1010)

TiedLow == Profile(100000, 100000, 100000, 100000, 100092, 473706, 1000, 1010)

\* A spike after a close of 0, without volume in the base, without volume
\* before the last day, and with a day-change of 7/100 * 100
AfterZeroClose == Profile(90000, 100000, 100000, 100000, 300000, 330000, 0, 1010)

NoBaseVolume == Profile(0, 0, 0, 0, 0, 500000, 1000, 1010)

NoSpikeBaseVolume == Profile(0, 600000, 0, 0, 0, 1000000, 1000, 1010)

SevenPercent == Profile(90000, 100000, 100000, 100000, 300000, 660000, 100, 107)

\* Under the short windows: a spike that passes every volume condition after
\* a rise of 10%, and one that passes all but the previous day's volume
TenPercent == Profile(90000, 100000, 100000, 100000, 300000, 1000000, 100, 110)

QuietYesterday == Profile(90000, 100000, 100000, 100000, 50000, 1000000, 1000, 1010)

\* What the provider may answer for ticker t and a lookback of period_days:
\* nothing for a symbol it does not know, and at times nothing for one other
\* symbol
Market(t, period_days) ==
    LET k == SymbolIndex(t)
        n == HistoryLen(period_days)
        long == n = LongLen
        good == Spiking(100000, 5)
        Plain(p) == Frame(p, n, "Date", DataColumns, NoHoles)
        rest == Frame(Spiking(IF k % 2 = 0 THEN 100000 ELSE 350000, 7 + (k % 3)), n,
                      IF k = 13 THEN "index" ELSE "Date", DataColumns, NoHoles)
    IN  IF k = 0 THEN {NoFrame}
        ELSE IF k = 16 THEN {Plain(Scenario(100000))} \cup (IF long THEN {NoFrame} ELSE {})
        ELSE IF long THEN
            { IF k = 1 THEN Plain(Scenario(0))
              ELSE IF k = 2
                THEN Frame(good, n, "Date", DataColumns,
                           (2 :> {"Volume"}) @@ (3 :> {"High"}) @@ (n - 6 :> {"Close", "Low"}))
              ELSE IF k = 3 THEN Plain(TiedLow)
              ELSE IF k = 4 THEN Plain(TiedHigh)
              ELSE IF k = 5 THEN Plain(NoSpikeBaseVolume)
              ELSE IF k = 6 THEN Plain(OnTheLine)
              ELSE rest }
        ELSE
            { IF k = 1 THEN Plain(Spiking(100000, 8))
              ELSE IF k = 2 THEN [Plain(good) EXCEPT !.bars = <<>>]
              ELSE IF k = 3 THEN Plain(SevenPercent)
              ELSE IF k = 4 THEN Frame(good, n, "Date", <<"Open", "High", "Low", "Close">>,
                                       NoHoles)
              ELSE IF k = 5 THEN Plain(AfterZeroClose)
              ELSE IF k = 6 THEN Plain(NoBaseVolume)
              ELSE IF k = 7 THEN Plain(TenPercent)
              ELSE IF k = 8 THEN Plain(QuietYesterday)
              ELSE rest }

-----------------------------------------------------------------------------
(* The script *)

EmptyCache == [k \in {} |-> EmptyFrame]

NoRequests == [k \in {} |-> <<>>]

\* The log after yf.download answered the call for ticker and period_days
Logged(log, ticker, period_days, df) ==
    LET pair == <<ticker, period_days>>
    IN  (pair :> Append(IF pair \in DOMAIN log THEN log[pair] ELSE <<>>, df)) @@ log

NoFetch ==
    [ticker |-> <<>>, period_days |-> 0, hit |-> FALSE, raised |-> FALSE, df |-> EmptyFrame]

NoLocals ==
    [verdict |-> "none", len |-> 0, day_change_pct |-> NaN, recent_avg |-> NaN,
     base_avg |-> NaN, recent_ratio |-> NaN, spike_base |-> NaN, today_ratio |-> NaN]

\* The page as first rendered: the widgets' defaults, the button not pressed
Init ==
    /\ codes_text = DefaultText
    /\ cfg = CfgDefault
    /\ codes = Parsed[DefaultText]
    /\ pc = "idle"
    /\ outcome = "none"
    /\ i = 0
    /\ rows = <<>>
    /\ out = <<>>
    /\ cache = EmptyCache
    /\ requests = NoRequests
    /\ served = NoFetch
    /\ loc = NoLocals
    /\ verdicts = <<>>
    /\ runs = 0

\* mutant: the list is tested for being absent, which it never is
NoCodes_Absent(cs) == FALSE

\* `if len(codes) == 0`
NoCodes(cs) == Len(cs) = 0

\* The places where a running script hands control back to Streamlit, which
\* stops it there when the user has touched a widget: the st.* calls before
\* the loop, progress.progress() after each fetch_ohlcv, the st.* calls after
\* the loop; and the script at rest
AtYield ==
    \/ pc \in {"idle", "stopped", "fetched"}
    \/ pc = "loop" /\ i \in {0, Len(codes)}

\* The script from its first line to `if run:`, with the widgets at text and
\* c: nothing of the previous execution is left on the page
Top(text, c) ==
    /\ codes_text' = text
    /\ cfg' = c
    /\ codes' = Parsed[text]
    /\ i' = 0
    /\ rows' = <<>>
    /\ out' = <<>>
    /\ served' = NoFetch
    /\ loc' = NoLocals
    /\ verdicts' = <<>>
    /\ UNCHANGED <<cache, requests>>

\* The script is rerun from the top with run = False and the widgets at text
\* and c, and `if run:` is skipped: a widget was changed, or the widgets are
\* as they were and the download button was clicked or the page reloaded
Rerun(text, c) ==
    /\ AtYield
    /\ Top(text, c)
    /\ pc' = "idle"
    /\ outcome' = "none"
    /\ UNCHANGED runs

\* The button is pressed: the script is rerun with run = True and the widgets
\* as they are, up to the for loop, or it stops with the input error
Run ==
    /\ AtYield
    /\ runs < MaxRuns
    /\ runs' = runs + 1
    /\ Top(codes_text, cfg)
    /\ IF NoCodes(codes')
       THEN pc' = "stopped" /\ outcome' = "input_error"
       ELSE pc' = "loop" /\ outcome' = "none"

\* The symbols a run can name, and the frames fetch_ohlcv can return for them
\* over a lookback of period_days
Tickers == {Ticker(k) : k \in 1..NumSymbols} \cup {<<"A", "A">>}

FramesFor(period_days) ==
    UNION {{FetchBody(raw) : raw \in Market(t, period_days)} : t \in Tickers}

\* What the loop body computes for each of those frames under each setting
EvaluationFor(period_days) ==
    [x \in FramesFor(period_days) \X Configs |-> Evaluate(x[1], x[2])]

Evaluation ==
    EvaluationFor(CfgDefault.lookback_days) @@ EvaluationFor(CfgAlt.lookback_days)

\* fetch_ohlcv(t, lookback_days) is answered by st.cache_data
FetchCached ==
    /\ pc = "loop"
    /\ i < Len(codes)
    /\ CacheKey(codes[i + 1], cfg.lookback_days) \in DOMAIN cache
    /\ served' = [ticker |-> codes[i + 1], period_days |-> cfg.lookback_days,
                  hit |-> TRUE, raised |-> FALSE,
                  df |-> cache[CacheKey(codes[i + 1], cfg.lookback_days)]]
    /\ pc' = "fetched"
    /\ UNCHANGED <<codes_text, cfg, codes, outcome, i, rows, out, cache, requests, loc,
                   verdicts, runs>>

\* fetch_ohlcv(t, lookback_days) is not in the cache: its body is entered and
\* waits for yf.download
FetchMissed ==
    /\ pc = "loop"
    /\ i < Len(codes)
    /\ CacheKey(codes[i + 1], cfg.lookback_days) \notin DOMAIN cache
    /\ pc' = "download"
    /\ UNCHANGED <<codes_text, cfg, codes, outcome, i, rows, out, cache, requests,
                   served, loc, verdicts, runs>>

\* yf.download returns raw: the rest of fetch_ohlcv's body runs and its
\* result is stored under the call's arguments
Downloaded(t, period_days, df) ==
    /\ cache' = (CacheKey(t, period_days) :> df) @@ cache
    /\ requests' = Logged(requests, t, period_days, df)
    /\ served' = [ticker |-> t, period_days |-> period_days, hit |-> FALSE,
                  raised |-> FALSE, df |-> df]

Download ==
    /\ pc = "download"
    /\ \E raw \in Market(codes[i + 1], cfg.lookback_days) :
         Downloaded(codes[i + 1], cfg.lookback_days, FetchBody(raw))
    /\ pc' = "fetched"
    /\ UNCHANGED <<codes_text, cfg, codes, outcome, i, rows, out, loc, verdicts, runs>>

\* yf.download raises: nothing in fetch_ohlcv or around its call catches the
\* exception, so nothing is stored and the script ends with the exception
\* on the page
DownloadRaises ==
    /\ pc = "download"
    /\ served' = [ticker |-> codes[i + 1], period_days |-> cfg.lookback_days,
                  hit |-> FALSE, raised |-> TRUE, df |-> EmptyFrame]
    /\ pc' = "stopped"
    /\ outcome' = "exception"
    /\ UNCHANGED <<codes_text, cfg, codes, i, rows, out, cache, requests, loc, verdicts,
                   runs>>

\* The rest of one iteration of the for loop, once fetch_ohlcv returned df
LoopBody(t, df, e) ==
    /\ i' = i + 1
    /\ loc' = e
    /\ verdicts' = Append(verdicts, e.verdict)
    /\ rows' = IF e.verdict = "row" THEN Append(rows, MakeRow(t, df, e)) ELSE rows
    /\ IF e.verdict = "raise"
       THEN pc' = "stopped" /\ outcome' = "exception"
       ELSE pc' = "loop" /\ UNCHANGED outcome
    /\ UNCHANGED <<codes_text, cfg, codes, out, runs>>

\* The loop body after fetch_ohlcv, on the frame it returned
Iteration ==
    /\ pc = "fetched"
    /\ LoopBody(codes[i + 1], served.df, Evaluation[<<served.df, cfg>>])
    /\ UNCHANGED <<cache, requests, served>>

\* mutant: the list is tested for being absent, which it never is
NoRows_Absent(rs) == FALSE

\* `if not rows`
NoRows(rs) == rs = <<>>

\* After the loop: the warning, or the sorted and truncated table
Finish ==
    /\ pc = "loop"
    /\ i = Len(codes)
    /\ pc' = "stopped"
    /\ IF NoRows(rows)
       THEN outcome' = "no_matches" /\ out' = <<>>
       ELSE outcome' = "results" /\ out' = Head_n(SortValues(rows), cfg.top_n)
    /\ UNCHANGED <<codes_text, cfg, codes, i, rows, cache, requests, served, loc,
                   verdicts, runs>>

Next ==
    \/ \E inp \in RunInputs \cup {<<codes_text, cfg>>} : Rerun(inp[1], inp[2])
    \/ Run
    \/ FetchCached
    \/ FetchMissed
    \/ Download
    \/ DownloadRaises
    \/ Iteration
    \/ Finish

Spec == Init /\ [][Next]_vars

-----------------------------------------------------------------------------
(* The parser alone: the script rendered for an input text, button not pressed *)

\* Tokens, the two separators, a blank, and three more of the characters at
\* which str.splitlines() breaks: carriage return, form feed, file separator
Pieces ==
    { <<"7", "2", "0", "3">>, <<"7", "2">>, <<"7", "2", "0", "3", ".", "T">>,
      <<",">>, <<"\n">>, <<" ">>, <<"\r">>, <<"\f">>, <<"\\x1c">> }

RECURSIVE Concatenations(_)
Concatenations(n) ==
    IF n = 0 THEN {<<>>}
    ELSE LET shorter == Concatenations(n - 1)
         IN  shorter \cup {s \o p : s \in shorter, p \in Pieces}

ParseInit ==
    /\ codes_text \in Concatenations(MaxPieces)
    /\ cfg = CfgDefault
    /\ codes = <<>>
    /\ pc = "input"
    /\ outcome = "none"
    /\ i = 0
    /\ rows = <<>>
    /\ out = <<>>
    /\ cache = EmptyCache
    /\ requests = NoRequests
    /\ served = NoFetch
    /\ loc = NoLocals
    /\ verdicts = <<>>
    /\ runs = 0

\* The script's line `codes = parse_codes(codes_text)`
Render ==
    /\ pc = "input"
    /\ codes' = parse_codes(codes_text)
    /\ pc' = "idle"
    /\ UNCHANGED <<codes_text, cfg, outcome, i, rows, out, cache, requests, served,
                   loc, verdicts, runs>>

ParseNext == Render

ParseSpec == ParseInit /\ [][ParseNext]_vars

-----------------------------------------------------------------------------
(* Vocabulary of the properties: the statistics of a frame, by bar number *)

\* A run has been started and the list was not empty
InRun ==
    /\ runs > 0 /\ pc \in {"loop", "download", "fetched", "stopped"}
    /\ outcome # "input_error"

\* The run went through the whole list
Finished == InRun /\ pc = "stopped" /\ i = Len(codes)

\* The frame fetch_ohlcv delivered for ticker t under the current lookback
DfOf(t) == cache[<<t, cfg.lookback_days>>]

\* Sum of the volumes of bars lo..hi of frame df
RECURSIVE VolumeSum(_, _, _)
VolumeSum(df, lo, hi) ==
    IF lo > hi THEN 0 ELSE df.bars[hi].Volume + VolumeSum(df, lo, hi - 1)

Bars(df) == Len(df.bars)

\* The last recent_days bars
RecentSum(df, c) == VolumeSum(df, Bars(df) - c.recent_days + 1, Bars(df))

\* The base_days bars before those
BaseSum(df, c) ==
    VolumeSum(df, Bars(df) - c.recent_days - c.base_days + 1, Bars(df) - c.recent_days)

\* The spike_days bars before the last bar
SpikeSum(df, c) == VolumeSum(df, Bars(df) - c.spike_days, Bars(df) - 1)

LastVolume(df) == df.bars[Bars(df)].Volume

PrevVolume(df) == df.bars[Bars(df) - 1].Volume

LastClose(df) == df.bars[Bars(df)].Close

PrevClose(df) == df.bars[Bars(df) - 1].Close

\* (last close - previous close) / previous close * 100 > limit
DayChangeAbove(df, limit) ==
    /\ Bars(df) >= 2
    /\ PrevClose(df) > 0
    /\ (LastClose(df) - PrevClose(df)) * 100 > limit * PrevClose(df)

\* The floating-point mean of n volumes that sum to s
WindowMean(s, n) == Float64Div(ToFloat(s), ToFloat(n))

RecentMean(df, c) == WindowMean(RecentSum(df, c), c.recent_days)

BaseMean(df, c) == WindowMean(BaseSum(df, c), c.base_days)

SpikeMean(df, c) == WindowMean(SpikeSum(df, c), c.spike_days)

\* The base average is positive and not below the liquidity floor
LiquidityPasses(df, c) ==
    /\ FloatLt(ToFloat(0), BaseMean(df, c))
    /\ FloatLe(ToFloat(c.min_base_avg_vol), BaseMean(df, c))

\* recent average / base average >= min_recent_ratio
BuildUpPasses(df, c) ==
    FloatLe(c.min_recent_ratio, Float64Div(RecentMean(df, c), BaseMean(df, c)))

\* last volume / spike-base average >= min_spike
SpikePasses(df, c) ==
    /\ FloatLt(ToFloat(0), SpikeMean(df, c))
    /\ FloatLe(c.min_spike, Float64Div(ToFloat(LastVolume(df)), SpikeMean(df, c)))

\* previous volume >= spike-base average
ContinuityPasses(df, c) == FloatLe(SpikeMean(df, c), ToFloat(PrevVolume(df)))

\* Every volume condition of the screen holds of df
VolumeConditionsPass(df, c) ==
    /\ Bars(df) >= c.recent_days + c.base_days /\ Bars(df) >= c.spike_days + 1
    /\ LiquidityPasses(df, c)
    /\ BuildUpPasses(df, c)
    /\ SpikePasses(df, c)
    /\ ContinuityPasses(df, c)

Collected(t) == \E k \in 1..Len(rows) : rows[k].Ticker = t

Shown(t) == \E k \in 1..Len(out) : out[k].Ticker = t

-----------------------------------------------------------------------------
(* C1 *)

\* C1: a processed symbol whose day-change % exceeds max_day_change is never
\* among the collected rows nor in the output, whatever its volumes are.
C1_PriceFilterExcludes ==
    InRun =>
        \A k \in 1..i :
            DayChangeAbove(DfOf(codes[k]), cfg.max_day_change)
                => ~Collected(codes[k]) /\ ~Shown(codes[k])

\* A finished run with results in which a symbol passing every volume
\* condition was left out because its day-change exceeds the maximum
C1_Witness ==
    /\ Finished /\ outcome = "results"
    /\ \E k \in 1..i :
         /\ verdicts[k] = "price"
         /\ DayChangeAbove(DfOf(codes[k]), cfg.max_day_change)
         /\ VolumeConditionsPass(DfOf(codes[k]), cfg)
         /\ ~Shown(codes[k])

-----------------------------------------------------------------------------
(* C2 *)

\* C2: a processed symbol whose previous-day volume is below the mean volume
\* of the spike_days bars before the last bar is neither collected nor shown;
\* every collected or shown row has previous-day volume >= that mean.
C2_ContinuityExcludes ==
    InRun =>
        /\ \A k \in 1..i :
             LET df == DfOf(codes[k])
             IN  (Bars(df) >= cfg.spike_days + 1
                    /\ PrevVolume(df) * cfg.spike_days < SpikeSum(df, cfg))
                 => ~Collected(codes[k]) /\ ~Shown(codes[k])
        /\ \A r \in Range(rows) \cup Range(out) :
             LET df == DfOf(r.Ticker)
             IN  PrevVolume(df) * cfg.spike_days >= SpikeSum(df, cfg)

\* A finished run with results that left out a symbol only for its quiet
\* previous day: day-change, liquidity, build-up and spike ratio all pass
C2_Witness ==
    /\ Finished /\ outcome = "results"
    /\ \E k \in 1..i :
         LET df == DfOf(codes[k])
         IN  /\ verdicts[k] = "continuity"
             /\ PrevVolume(df) * cfg.spike_days < SpikeSum(df, cfg)
             /\ ~DayChangeAbove(df, cfg.max_day_change)
             /\ LiquidityPasses(df, cfg)
             /\ BuildUpPasses(df, cfg)
             /\ SpikePasses(df, cfg)
             /\ ~Shown(codes[k])

-----------------------------------------------------------------------------
(* C3 *)

\* The sliders as the example sets them
ExampleConfig(c) ==
    /\ c.lookback_days = 160 /\ c.recent_days = 5 /\ c.base_days = 20
    /\ c.min_recent_ratio = FloatLit(15, 10) /\ c.spike_days = 20
    /\ c.min_spike = FloatLit(30, 10)
    /\ c.max_day_change = 5

\* The figures the example gives for the series: base average 100,000,
\* recent average 200,000, 600,000 on the last day, 160,000 the day before,
\* day-change +3%
ExampleSeries(df, c) ==
    /\ Bars(df) >= c.recent_days + c.base_days /\ Bars(df) >= c.spike_days + 1
    /\ BaseSum(df, c) = 100000 * c.base_days
    /\ RecentSum(df, c) = 200000 * c.recent_days
    /\ LastVolume(df) = 600000
    /\ PrevVolume(df) = 160000
    /\ PrevClose(df) > 0
    /\ (LastClose(df) - PrevClose(df)) * 100 = 3 * PrevClose(df)

\* The series has the length the loop asks for and no negative volume
Regular(df, c) ==
    /\ Bars(df) >= Max(Max(c.recent_days + c.base_days + 5, c.spike_days + 5),
                       c.base_days + 10)
    /\ \A k \in 1..Bars(df) : df.bars[k].Volume >= 0

HasExampleRatios(r) == r.today_ratio = ToFloat(4) /\ r.recent_ratio = ToFloat(2)

\* a is another row whose (today ratio, recent/base ratio) pair is >= r's
PairAtLeast(a, r) ==
    \/ FloatLt(r.today_ratio, a.today_ratio)
    \/ /\ a.today_ratio = r.today_ratio
       /\ FloatLe(r.recent_ratio, a.recent_ratio)

-----------------------------------------------------------------------------
(* C10 *)

\* The iteration that just ended computed this mean: s / n
IsMean(x, s, n) == x # NaN /\ x = WindowMean(s, n)

\* C10: after an iteration over the series of symbol i that passed the minimum-length
\* check, each window lies wholly inside the series, and each average the
\* iteration computed is the mean over exactly its window: the last
\* recent_days bars, the base_days bars before those, the spike_days bars
\* before the last bar.
C10_WindowsExact ==
    (InRun /\ i >= 1 /\ loc.verdict \notin {"none", "no_data"}) =>
        LET df == DfOf(codes[i])
            n == Bars(df)
        IN  /\ n >= Max(Max(cfg.recent_days + cfg.base_days + 5, cfg.spike_days + 5),
                        cfg.base_days + 10)
            /\ n - cfg.recent_days - cfg.base_days + 1 >= 1
            /\ n - cfg.spike_days >= 1
            /\ loc.verdict \notin {"nan_change", "price"}
                 => /\ IsMean(loc.recent_avg, RecentSum(df, cfg), cfg.recent_days)
                    /\ IsMean(loc.base_avg, BaseSum(df, cfg), cfg.base_days)
            /\ loc.verdict \in {"spike_undefined", "spike_ratio", "continuity", "row"}
                 => IsMean(loc.spike_base, SpikeSum(df, cfg), cfg.spike_days)

\* An iteration computed all three averages over a series in which moving
\* any window by one bar changes its sum
C10_Witness ==
    /\ InRun /\ i >= 1 /\ loc.verdict = "row"
    /\ LET df == DfOf(codes[i])
           n == Bars(df)
       IN  /\ IsMean(loc.spike_base, SpikeSum(df, cfg), cfg.spike_days)
           /\ IsMean(loc.base_avg, BaseSum(df, cfg), cfg.base_days)
           /\ IsMean(loc.recent_avg, RecentSum(df, cfg), cfg.recent_days)
           /\ df.bars[n].Volume # df.bars[n - cfg.spike_days].Volume
           /\ df.bars[n].Volume # df.bars[n - cfg.recent_days].Volume
           /\ df.bars[n - cfg.recent_days].Volume
                  # df.bars[n - cfg.recent_days - cfg.base_days].Volume

-----------------------------------------------------------------------------
(* C4 *)

\* Frame df gives the evaluation nothing to work with: no data, too few bars,
\* or a ratio with an undefined or non-positive denominator
Unusable(df, c) ==
    \/ df.columns = <<>>
    \/ Bars(df) < c.recent_days + c.base_days + 5
    \/ Bars(df) < c.spike_days + 5
    \/ Bars(df) < c.base_days + 10
    \/ PrevClose(df) <= 0
    \/ BaseSum(df, c) <= 0
    \/ SpikeSum(df, c) <= 0

\* What holds of unusable symbols in every state of a run
SkippedNotSurfaced ==
    InRun =>
        /\ outcome # "exception"
        /\ Len(verdicts) = i /\ i <= Len(codes)
        /\ pc # "stopped" => outcome = "none"
        /\ pc = "stopped" => i = Len(codes) /\ outcome \in {"results", "no_matches"}
        /\ \A k \in 1..i :
             Unusable(DfOf(codes[k]), cfg)
                 => /\ verdicts[k] \in {"no_data", "nan_change", "price", "avg_undefined",
                                        "liquidity", "recent_ratio", "spike_undefined"}
                    /\ ~Collected(codes[k]) /\ ~Shown(codes[k])

\* The user touches the page: the script is rerun, with or without the button
UserStep == pc' = "idle" \/ runs' # runs

\* A step of a run that is not the user's fetches the next symbol's frame,
\* goes on from the fetched frame to the next symbol, or ends the run after
\* the last symbol with the results or the no-matches notice
LoopGoesOn ==
    (InRun /\ pc # "stopped" /\ ~UserStep) =>
        \/ /\ pc = "loop" /\ i < Len(codes)
           /\ pc' \in {"download", "fetched"} /\ i' = i /\ outcome' = "none"
        \/ pc = "download" /\ pc' = "fetched" /\ i' = i /\ outcome' = "none"
        \/ pc = "fetched" /\ pc' = "loop" /\ i' = i + 1 /\ outcome' = "none"
        \/ /\ pc = "loop" /\ i = Len(codes)
           /\ pc' = "stopped" /\ outcome' \in {"results", "no_matches"}

\* C4: in a run over a non-empty list a per-symbol failure, a failed fetch
\* included, only has the symbol skipped: it yields no row and no exception;
\* every step the script takes fetches, goes on to the next symbol or, after
\* the last one, ends the run with the results or the no-matches notice.
C4_FailuresAreLocal == []SkippedNotSurfaced /\ [][LoopGoesOn]_vars

\* What the code does keep of C4: an exception ends a run only out of
\* yf.download; the evaluation of a frame, whatever the frame, raises none
\* and skips every unusable one
OnlyDownloadRaises ==
    InRun =>
        /\ outcome = "exception" <=> (pc = "stopped" /\ served.raised)
        /\ Len(verdicts) = i /\ i <= Len(codes)
        /\ \A k \in 1..i :
             /\ verdicts[k] # "raise"
             /\ Unusable(DfOf(codes[k]), cfg)
                  => /\ verdicts[k] \in {"no_data", "nan_change", "price", "avg_undefined",
                                         "liquidity", "recent_ratio", "spike_undefined"}
                     /\ ~Collected(codes[k]) /\ ~Shown(codes[k])

-----------------------------------------------------------------------------
(* C5 *)

\* C5: the output of a run with results holds min(top_n, collected) distinct
\* collected rows; an earlier output row's (today ratio, recent/base ratio)
\* pair is >= a later one's; no collected row left out has a pair strictly
\* greater than an output row's.
C5_RankedAndTruncated ==
    (Finished /\ outcome = "results") =>
        /\ Len(out) = Min(cfg.top_n, Len(rows))
        /\ \A a, b \in 1..Len(out) : a < b => out[a] # out[b] /\ PairAtLeast(out[a], out[b])
        /\ \A a \in 1..Len(out) : \E j \in 1..Len(rows) : rows[j] = out[a]
        /\ \A j \in 1..Len(rows) :
             (\A a \in 1..Len(out) : out[a] # rows[j])
                 => \A a \in 1..Len(out) : PairAtLeast(out[a], rows[j])

\* More rows collected than shown, and among the shown two with the same
\* today ratio and different recent/base ratios
C5_Witness ==
    /\ Finished /\ outcome = "results"
    /\ Len(rows) > cfg.top_n /\ Len(out) = cfg.top_n
    /\ \E a, b \in 1..Len(out) :
         /\ a < b
         /\ out[a].today_ratio = out[b].today_ratio
         /\ out[a].recent_ratio # out[b].recent_ratio

-----------------------------------------------------------------------------
(* C6 *)

OnlySeparators(text) == \A k \in 1..Len(text) : text[k] \in {",", "\n", " "}

\* C6: from the press of the button on a text of nothing but separators and
\* whitespace until the next change of a widget, the run is stopped with the
\* input error, and fetch_ohlcv has not been called in it.
C6_EmptyListNoFetch ==
    (runs > 0 /\ pc # "idle" /\ OnlySeparators(codes_text)) =>
        /\ pc = "stopped" /\ outcome = "input_error"
        /\ served = NoFetch /\ i = 0 /\ verdicts = <<>>
        /\ rows = <<>> /\ out = <<>>

\* The second run, after a run that fetched, stopped with the input error on
\* a non-empty text of separators
C6_Witness ==
    /\ runs = 2 /\ outcome = "input_error" /\ served = NoFetch
    /\ Len(codes_text) > 0 /\ OnlySeparators(codes_text)
    /\ DOMAIN requests # {}

-----------------------------------------------------------------------------
(* C7 *)

\* C7: the no-matches outcome is that of a stopped run over a non-empty list
\* which processed every symbol, collected nothing and shows no table; and a
\* stopped run over a non-empty list in which no symbol passed has it.
C7_NoMatches ==
    /\ outcome = "no_matches" =>
         /\ pc = "stopped" /\ Len(codes) > 0
         /\ i = Len(codes) /\ Len(verdicts) = Len(codes)
         /\ \A k \in 1..Len(verdicts) : verdicts[k] \notin {"row", "raise"}
         /\ rows = <<>> /\ out = <<>>
    /\ (InRun /\ pc = "stopped" /\ i = Len(codes)
           /\ \A k \in 1..Len(verdicts) : verdicts[k] # "row")
         => outcome = "no_matches"

\* No matches among several symbols, one of them with a full series
C7_Witness ==
    /\ outcome = "no_matches" /\ Len(codes) >= 2
    /\ \E k \in 1..i : Bars(DfOf(codes[k])) >= LongLen

-----------------------------------------------------------------------------
(* C8 *)

\* C8: the provider answers at most once for a (symbol, lookback) pair, no
\* later call for the pair reaching it; a call answered from the cache
\* returns the frame the provider's answer for that same pair produced; a
\* call not answered from the cache returns the provider's answer last
\* logged for its pair.
C8_ServedFromCache ==
    /\ \A pair \in DOMAIN requests : Len(requests[pair]) = 1
    /\ served.hit =>
         /\ <<served.ticker, served.period_days>> \in DOMAIN requests
         /\ requests[<<served.ticker, served.period_days>>][1] = served.df
    /\ (served # NoFetch /\ ~served.hit /\ ~served.raised) =>
         /\ <<served.ticker, served.period_days>> \in DOMAIN requests
         /\ LET log == requests[<<served.ticker, served.period_days>>]
            IN  log[Len(log)] = served.df

\* In the third run a call is answered from the cache with a non-empty
\* frame, while the cache also holds other symbols and, for the same symbol
\* under the other lookback, another frame
C8_Witness ==
    /\ runs = 3 /\ served.hit /\ served.df.bars # <<>>
    /\ \E pair \in DOMAIN requests : pair[1] # served.ticker
    /\ \E pair \in DOMAIN requests :
         /\ pair[1] = served.ticker /\ pair[2] # served.period_days
         /\ requests[pair][1] # served.df

-----------------------------------------------------------------------------
(* C9 *)

\* The maximal stretches of text free of the characters in seps, as
\* <<first, last>>
Segments(text, seps) ==
    {seg \in (1..Len(text)) \X (1..Len(text)) :
        /\ seg[1] <= seg[2]
        /\ \A k \in seg[1]..seg[2] : text[k] \notin seps
        /\ seg[1] = 1 \/ text[seg[1] - 1] \in seps
        /\ seg[2] = Len(text) \/ text[seg[2] + 1] \in seps}

\* The stretch without its leading and trailing whitespace
Trimmed(text, seg) ==
    LET ink == {k \in seg[1]..seg[2] : text[k] \notin Whitespace}
    IN  IF ink = {} THEN <<>>
        ELSE SubSeq(text, CHOOSE k \in ink : \A m \in ink : k <= m,
                          CHOOSE k \in ink : \A m \in ink : k >= m)

Normalized(tok) ==
    IF Len(tok) = 4 /\ \A k \in 1..4 : tok[k] \in Digits THEN tok \o <<".", "T">> ELSE tok

ExpectedCodes(text, seps) ==
    {Normalized(Trimmed(text, seg)) : seg \in Segments(text, seps)} \ {<<>>}

\* a comes strictly before b in code point order
Ascending(a, b) ==
    \E k \in 1..(Len(b)) :
        /\ k <= Len(a) + 1
        /\ \A m \in 1..(k - 1) : a[m] = b[m]
        /\ k = Len(a) + 1 \/ Ord(a[k]) < Ord(b[k])

\* The comma and the newlines: line feed and carriage return
CommaAndNewlines == {",", "\n", "\r"}

\* C9 as stated: the parsed list holds exactly the normalized non-empty
\* tokens of the text, the tokens being what lies between commas and
\* newlines, each once, in strictly ascending order.
C9_SplitAtCommasAndNewlines ==
    pc # "input" =>
        /\ Range(codes) = ExpectedCodes(codes_text, CommaAndNewlines)
        /\ \A j, k \in 1..Len(codes) : j < k => Ascending(codes[j], codes[k])

\* C9, amended: the parsed list holds exactly the normalized non-empty tokens
\* of the text, the tokens being what lies between commas and the line
\* boundaries of str.splitlines (line feed, carriage return, and also
\* vertical tab, form feed, file, group and record separator, next line, line
\* and paragraph separator), each once, in strictly ascending order.
C9_ParserCanonical ==
    pc # "input" =>
        /\ Range(codes) = ExpectedCodes(codes_text, LineBoundaries \cup {","})
        /\ \A j, k \in 1..Len(codes) : j < k => Ascending(codes[j], codes[k])

\* A text naming one symbol twice, once as a four-digit code and once
\* already qualified, with a comma in it and a form feed between two tokens
C9_Witness ==
    /\ pc = "idle"
    /\ codes = << <<"7", "2">>, <<"7", "2", "0", "3", ".", "T">> >>
    /\ \E a \in 1..Len(codes_text) : codes_text[a] = ","
    /\ \E a \in 2..(Len(codes_text) - 1) :
         /\ codes_text[a] = "\f"
         /\ codes_text[a - 1] \in Digits /\ codes_text[a + 1] \in Digits
    /\ Cardinality(Segments(codes_text, LineBoundaries \cup {","})) = 3

====
